---- MODULE Spec2Model ----
(***************************************************************************)
(* Model of the resumable extraction pipeline of DICOMetaExtractor_v32.py. *)
(*                                                                         *)
(* The state is the part of the file system the pipeline owns (the temp    *)
(* directory with its partial result files, the checkpoint file, the       *)
(* output file, the advisory lock on the checkpoint file) and the          *)
(* position and locals of the main process and of every folder task of     *)
(* the ProcessPoolExecutor.  A run can be killed at any step and be        *)
(* re-invoked; a kill loses every process-local value, every buffered      *)
(* write and every lock, and keeps the files as they are on disk.          *)
(***************************************************************************)
EXTENDS Integers, Sequences, FiniteSets, Bags, TLC

\* ---------------------------------------------------------------- bounds
\* Folders of the input tree that may hold .dcm files.
NumFolders == 2
\* .dcm files directly inside each such folder.
FilesPerFolder == 2
\* Invocations of main() on the same root and output path.
MaxRuns == 2

\* ------------------------------------------------------------- constants
\* chunk_size of process_folder.
ChunkSize == 6

Folders == 1..NumFolders
NoOne == 0

VARIABLES
    tree,               \* input: the folders that directly contain .dcm files
    runs,               \* number of invocations of main() so far
    mainpc,             \* position of the main process
    dcm_folders,        \* collect_and_process_dicom_data: scan result
    processed_folders,  \* collect_and_process_dicom_data: checkpoint set loaded at start
    partial_files,      \* merge_partial_results_and_cleanup: listing of the temp dir
    all_data,           \* merge_partial_results_and_cleanup: concatenated records
    wpc,                \* position of the task of each folder
    folder_results,     \* process_folder_and_save_results: records of the folder
    index,              \* process_folder_and_save_results: len(os.listdir(temp_dir))
    processed,          \* mark_folder_as_processed: the set to be written back
    ex_lock,            \* holder of LOCK_EX on the checkpoint file, or NoOne
    temp_exists,        \* the temp_processing directory exists
    temp_files,         \* the part_<index>_<uuid>.json files in it
    ckpt,               \* processed_folders.json
    output,             \* the output CSV file
    call,               \* a function of the program called on its own: name and argument
    ret                 \* what that call returned

mainvars == <<mainpc, dcm_folders, processed_folders, partial_files, all_data>>
taskvars == <<wpc, folder_results, index, processed, ex_lock>>
diskvars == <<temp_exists, temp_files, ckpt, output>>
callvars == <<call, ret>>
vars == <<tree, runs, mainvars, taskvars, diskvars, callvars>>

\* ---------------------------------------------------------------- helpers
RECURSIVE SeqSum(_)
SeqSum(ss) == IF ss = <<>> THEN <<>> ELSE Head(ss) \o SeqSum(Tail(ss))

Perms(n) == {p \in [1..n -> 1..n] : \A i, j \in 1..n : p[i] = p[j] => i = j}

RECURSIVE SortedSeq(_)
SortedSeq(S) ==
    IF S = {} THEN <<>>
    ELSE LET m == CHOOSE x \in S : \A y \in S : x <= y
         IN <<m>> \o SortedSeq(S \ {m})

SeqToBag(s) ==
    LET R == {s[i] : i \in DOMAIN s}
    IN [r \in R |-> Cardinality({i \in DOMAIN s : s[i] = r})]

\* ------------------------------------------------------- folder processor
\* The .dcm paths of a folder, in os.listdir order.
FilePaths(f) == [i \in 1..FilesPerFolder |-> <<f, i>>]

process_file(filepath) == [DicomPath |-> filepath]

process_files_chunk(filepaths) ==
    [i \in DOMAIN filepaths |-> process_file(filepaths[i])]

\* filepaths[i : i + chunk_size] for i in range(0, len(filepaths), chunk_size)
Chunks(filepaths) ==
    LET n == (Len(filepaths) + ChunkSize - 1) \div ChunkSize
    IN [c \in 1..n |->
          SubSeq(filepaths, (c - 1) * ChunkSize + 1,
                 IF c * ChunkSize < Len(filepaths) THEN c * ChunkSize
                                                   ELSE Len(filepaths))]

\* all_results.extend(future.result()) in the order `order` of completion.
process_folder(f, order) ==
    LET chunks == Chunks(FilePaths(f))
    IN SeqSum([k \in DOMAIN chunks |-> process_files_chunk(chunks[order[k]])])

\* ----------------------------------------------------------- checkpoint
CkptMissing == [state |-> "missing", set |-> {}, len |-> 0]
CkptTruncated == [state |-> "torn", set |-> {}, len |-> 0]

\* load_processed_folders: FileNotFoundError and JSONDecodeError give set().
load_processed_folders(c) == IF c.state = "valid" THEN c.set ELSE {}

\* The buffered json.dump reaches the file when it is closed: the text of
\* `s` is written at offset 0 of whatever the file holds by then.  A longer
\* text left by another writer keeps its tail, which is not valid JSON.
\* Folder names have equal length, so the text length grows with the size
\* of the set.
FlushCkpt(c, s) ==
    IF c.len > Cardinality(s)
    THEN [state |-> "torn", set |-> {}, len |-> c.len]
    ELSE [state |-> "valid", set |-> s, len |-> Cardinality(s)]

\* --------------------------------------------------------- partial files
FileKey(p) == (p.idx * (MaxRuns + 1) + p.run) * (NumFolders + 1) + p.folder

\* Faulty variant of NewPartial: the random part of the name is the same in
\* every run (a seeded generator).
NewPartialSameUuid(f) ==
    [idx |-> index[f], run |-> 1, folder |-> f, complete |-> FALSE, data |-> <<>>]

\* part_<index>_<uuid>.json: the uuid4 of a save is fresh, so it is
\* identified by the run and the folder task that drew it.
NewPartial(f) ==
    [idx |-> index[f], run |-> runs, folder |-> f, complete |-> FALSE, data |-> <<>>]

FileByKey(k) == CHOOSE p \in temp_files : FileKey(p) = k

\* Folders with a completely written partial result file.
DurableFolders == {p.folder : p \in {q \in temp_files : q.complete}}

\* ------------------------------------------------------------------ Init
NoTask == [f \in Folders |-> "none"]
NoResults == [f \in Folders |-> <<>>]
NoIndex == [f \in Folders |-> 0]
NoProcessed == [f \in Folders |-> {}]
NoOutput == [state |-> "none", rows |-> <<>>]
\* The program is run from main(): no function is called on its own.
MainCall == [fn |-> "main", of |-> <<>>]
NoReturn == [done |-> FALSE, raises |-> FALSE, val |-> <<>>]

Init ==
    /\ tree \in {1..n : n \in 0..NumFolders}
    /\ runs = 1
    /\ mainpc = "create_temp_dir"
    /\ dcm_folders = <<>>
    /\ processed_folders = {}
    /\ partial_files = <<>>
    /\ all_data = <<>>
    /\ wpc = NoTask
    /\ folder_results = NoResults
    /\ index = NoIndex
    /\ processed = NoProcessed
    /\ ex_lock = NoOne
    /\ temp_exists = FALSE
    /\ temp_files = {}
    /\ ckpt = CkptMissing
    /\ output = NoOutput
    /\ call = MainCall
    /\ ret = NoReturn


\* ------------------------------------------------------------ main process
\* create_temp_dir: os.makedirs(temp_dir_path, exist_ok=True)
create_temp_dir ==
    /\ mainpc = "create_temp_dir"
    /\ temp_exists' = TRUE
    /\ mainpc' = "find_dcm_folders"
    /\ UNCHANGED <<tree, call, ret, runs, dcm_folders, processed_folders, partial_files,
                   all_data, taskvars, temp_files, ckpt, output>>

\* find_dcm_folders: the folders with .dcm files, deduplicated and sorted.
\* Faulty variant of find_dcm_folders: list(set(...)) is left out, and a folder
\* found by the check of its own directory and by the check of a directory
\* above it is in the list twice.
find_dcm_folders_twice ==
    /\ mainpc = "find_dcm_folders"
    /\ dcm_folders' = SortedSeq(tree) \o SortedSeq(tree)
    /\ mainpc' = "load"
    /\ UNCHANGED <<tree, call, ret, runs, processed_folders, partial_files, all_data,
                   taskvars, diskvars>>

find_dcm_folders ==
    /\ mainpc = "find_dcm_folders"
    /\ dcm_folders' = SortedSeq(tree)
    /\ mainpc' = "load"
    /\ UNCHANGED <<tree, call, ret, runs, processed_folders, partial_files, all_data,
                   taskvars, diskvars>>

\* processed_folders = load_processed_folders(base_dir)
MainLoad ==
    /\ mainpc = "load"
    /\ processed_folders' = load_processed_folders(ckpt)
    /\ mainpc' = "submit"
    /\ UNCHANGED <<tree, call, ret, runs, dcm_folders, partial_files, all_data,
                   taskvars, diskvars>>

\* executor.submit(process_folder_and_save_results, ...) for folder in dcm_folders
Submit ==
    /\ mainpc = "submit"
    /\ wpc' = [f \in Folders |->
                 IF \E i \in DOMAIN dcm_folders : dcm_folders[i] = f
                 THEN "submitted" ELSE "none"]
    /\ mainpc' = "wait"
    /\ UNCHANGED <<tree, call, ret, runs, dcm_folders, processed_folders, partial_files,
                   all_data, folder_results, index, processed, ex_lock, diskvars>>

\* future.result() of every task, then the executor's shutdown(wait=True):
\* an exception of a task is re-raised in the main process once every task
\* has ended, and leaves collect_and_process_dicom_data and main.
JoinNext(failed) == IF failed THEN "crashed" ELSE "merge_list"

\* Faulty variant of Join: the loop is left at the first task that has ended
\* and the pool is not waited for.
JoinFirstEnded ==
    /\ mainpc = "wait"
    /\ \/ \E f \in Folders : wpc[f] \in {"done", "failed"}
       \/ \A f \in Folders : wpc[f] = "none"
    /\ mainpc' = JoinNext(\E f \in Folders : wpc[f] = "failed")
    /\ UNCHANGED <<tree, call, ret, runs, dcm_folders, processed_folders, partial_files,
                   all_data, taskvars, diskvars>>

Join ==
    /\ mainpc = "wait"
    /\ \A f \in Folders : wpc[f] \in {"none", "done", "failed"}
    /\ mainpc' = JoinNext(\E f \in Folders : wpc[f] = "failed")
    /\ UNCHANGED <<tree, call, ret, runs, dcm_folders, processed_folders, partial_files,
                   all_data, taskvars, diskvars>>

\* Faulty variant of MergeList: an empty listing is not told apart, and the
\* merge goes on to build and write a table.
MergeListNoEmptyCheck ==
    /\ mainpc = "merge_list"
    /\ partial_files' = SortedSeq({FileKey(p) : p \in temp_files})
    /\ mainpc' = "merge_read"
    /\ UNCHANGED <<tree, call, ret, runs, dcm_folders, processed_folders, all_data,
                   taskvars, diskvars>>

\* partial_files = [... for f in os.listdir(temp_dir) if f.endswith(".json")]
\* The listing is taken in name order; the rows of the table are compared
\* as a bag.
MergeList ==
    /\ mainpc = "merge_list"
    /\ partial_files' = SortedSeq({FileKey(p) : p \in temp_files})
    /\ mainpc' = IF temp_files = {} THEN "rmtree" ELSE "merge_read"
    /\ UNCHANGED <<tree, call, ret, runs, dcm_folders, processed_folders, all_data,
                   taskvars, diskvars>>

\* Faulty variant of LoadPartial: only the partial files of the run under way
\* are read.
LoadPartialOfThisRun(p) == IF p.complete /\ p.run = runs THEN p.data ELSE <<>>

\* json.load of one partial file; a file that does not parse raises, the
\* exception is caught and printed, and the file contributes nothing.
LoadPartial(p) == IF p.complete THEN p.data ELSE <<>>

\* for json_file in partial_files: ... all_data.extend(data)
MergeRead ==
    /\ mainpc = "merge_read"
    /\ all_data' = SeqSum([k \in DOMAIN partial_files |->
                              LoadPartial(FileByKey(partial_files[k]))])
    /\ mainpc' = "write_open"
    /\ UNCHANGED <<tree, call, ret, runs, dcm_folders, processed_folders, partial_files,
                   taskvars, diskvars>>

\* final_df.write_csv(output_path) creates or truncates the output file ...
WriteCsvOpen ==
    /\ mainpc = "write_open"
    /\ output' = [state |-> "torn", rows |-> <<>>]
    /\ mainpc' = "write_close"
    /\ UNCHANGED <<tree, call, ret, runs, dcm_folders, processed_folders, partial_files,
                   all_data, taskvars, temp_exists, temp_files, ckpt>>

\* ... and writes one row per record.
WriteCsvClose ==
    /\ mainpc = "write_close"
    /\ output' = [state |-> "complete", rows |-> all_data]
    /\ mainpc' = "rmtree"
    /\ UNCHANGED <<tree, call, ret, runs, dcm_folders, processed_folders, partial_files,
                   all_data, taskvars, temp_exists, temp_files, ckpt>>

\* Faulty variant of WriteCsvFail: the exception of write_csv is caught like the one
\* of json.load, and the cleanup goes on.
WriteCsvFailSwallowed ==
    /\ mainpc \in {"write_open", "write_close"}
    /\ mainpc' = "rmtree"
    /\ UNCHANGED <<tree, call, ret, runs, dcm_folders, processed_folders, partial_files,
                   all_data, taskvars, diskvars>>

\* write_csv raises (the path cannot be opened, the disk is full): nothing
\* catches it, so main ends with the temp state as it is.
WriteCsvFail ==
    /\ mainpc \in {"write_open", "write_close"}
    /\ mainpc' = "crashed"
    /\ UNCHANGED <<tree, call, ret, runs, dcm_folders, processed_folders, partial_files,
                   all_data, taskvars, diskvars>>

\* shutil.rmtree(temp_dir): unlinks the entries one by one, then the
\* directory itself.
RmTree ==
    /\ mainpc = "rmtree"
    /\ IF temp_files # {}
       THEN /\ \E p \in temp_files : temp_files' = temp_files \ {p}
            /\ UNCHANGED <<mainpc, temp_exists>>
       ELSE /\ temp_exists' = FALSE
            /\ mainpc' = "remove_ckpt"
            /\ UNCHANGED temp_files
    /\ UNCHANGED <<tree, call, ret, runs, dcm_folders, processed_folders, partial_files,
                   all_data, taskvars, ckpt, output>>

\* os.remove(f"{base_dir}/processed_folders.json"); print("Done.")
\* A missing file raises FileNotFoundError.
RemoveCkpt ==
    /\ mainpc = "remove_ckpt"
    /\ IF ckpt.state = "missing"
       THEN mainpc' = "crashed" /\ UNCHANGED ckpt
       ELSE mainpc' = "done" /\ ckpt' = CkptMissing
    /\ UNCHANGED <<tree, call, ret, runs, dcm_folders, processed_folders, partial_files,
                   all_data, taskvars, temp_exists, temp_files, output>>

\* ------------------------------------------------------------ folder tasks
\* Faulty variant of ShouldProcess: the checkpoint set is not consulted.
ShouldProcessAlways(f) == f \in Folders

\* process_folder_and_save_results: if folder not in processed_folders
ShouldProcess(f) == f \notin processed_folders

\* The folder is in the checkpoint set loaded at the start: the task returns.
SkipFolder(f) ==
    /\ mainpc = "wait"
    /\ wpc[f] = "submitted"
    /\ ~ShouldProcess(f)
    /\ wpc' = [wpc EXCEPT ![f] = "done"]
    /\ UNCHANGED <<tree, call, ret, runs, mainvars, folder_results, index, processed,
                   ex_lock, diskvars>>

\* folder_results = process_folder(folder)
ProcessFolder(f) ==
    /\ mainpc = "wait"
    /\ wpc[f] = "submitted"
    /\ ShouldProcess(f)
    /\ \E order \in Perms(Len(Chunks(FilePaths(f)))) :
          folder_results' = [folder_results EXCEPT ![f] = process_folder(f, order)]
    /\ wpc' = [wpc EXCEPT ![f] = "count"]
    /\ UNCHANGED <<tree, call, ret, runs, mainvars, index, processed, ex_lock, diskvars>>

\* process_folder raises: os.listdir(folder) fails, or a chunk worker dies
\* and future.result() raises BrokenProcessPool.  The task ends with the
\* exception.
ProcessFolderFail(f) ==
    /\ mainpc = "wait"
    /\ wpc[f] = "submitted"
    /\ ShouldProcess(f)
    /\ wpc' = [wpc EXCEPT ![f] = "failed"]
    /\ UNCHANGED <<tree, call, ret, runs, mainvars, folder_results, index, processed,
                   ex_lock, diskvars>>

\* len(os.listdir(temp_dir)), the index argument of save_partial_results
CountTemp(f) ==
    /\ wpc[f] = "count"
    /\ index' = [index EXCEPT ![f] = Cardinality(temp_files)]
    /\ wpc' = [wpc EXCEPT ![f] = "save_open"]
    /\ UNCHANGED <<tree, call, ret, runs, mainvars, folder_results, processed, ex_lock,
                   diskvars>>

\* save_partial_results: open(partial_output, "w") creates the empty file
SavePartialOpen(f) ==
    /\ wpc[f] = "save_open"
    /\ temp_files' = temp_files \cup {NewPartial(f)}
    /\ wpc' = [wpc EXCEPT ![f] = "save_dump"]
    /\ UNCHANGED <<tree, call, ret, runs, mainvars, folder_results, index, processed,
                   ex_lock, temp_exists, ckpt, output>>

\* Faulty variant of SavePartialDump: the folder is marked before its records are
\* written to the partial file.
SavePartialDumpAfterMark(f) ==
    /\ wpc[f] = "save_dump"
    /\ wpc' = [wpc EXCEPT ![f] = "load"]
    /\ UNCHANGED <<tree, call, ret, runs, mainvars, folder_results, index, processed,
                   ex_lock, diskvars>>

\* save_partial_results: json.dump(folder_results, file) and the close of
\* the file; save_partial_results returns and mark_folder_as_processed starts.
SavePartialDump(f) ==
    /\ wpc[f] = "save_dump"
    /\ temp_files' = (temp_files \ {NewPartial(f)}) \cup
                     {[NewPartial(f) EXCEPT !.complete = TRUE,
                                            !.data = folder_results[f]]}
    /\ folder_results' = [folder_results EXCEPT ![f] = <<>>]
    /\ index' = [index EXCEPT ![f] = 0]
    /\ wpc' = [wpc EXCEPT ![f] = "load"]
    /\ UNCHANGED <<tree, call, ret, runs, mainvars, processed, ex_lock, temp_exists,
                   ckpt, output>>

\* save_partial_results raises (the file cannot be created, or the write
\* fails and leaves what was written so far): the task ends with the exception.
SavePartialFail(f) ==
    /\ wpc[f] \in {"save_open", "save_dump"}
    /\ folder_results' = [folder_results EXCEPT ![f] = <<>>]
    /\ index' = [index EXCEPT ![f] = 0]
    /\ wpc' = [wpc EXCEPT ![f] = "failed"]
    /\ UNCHANGED <<tree, call, ret, runs, mainvars, processed, ex_lock, diskvars>>

\* mark_folder_as_processed: processed = load_processed_folders(base_dir);
\* processed.add(folder).  The read takes LOCK_SH on the open file, which
\* waits while another process holds LOCK_EX; a missing file is not locked.
MarkLoad(f) ==
    /\ wpc[f] = "load"
    /\ ckpt.state = "missing" \/ ex_lock = NoOne
    /\ processed' = [processed EXCEPT ![f] = load_processed_folders(ckpt) \cup {f}]
    /\ wpc' = [wpc EXCEPT ![f] = "open_w"]
    /\ UNCHANGED <<tree, call, ret, runs, mainvars, folder_results, index, ex_lock, diskvars>>

\* mark_folder_as_processed: open(".../processed_folders.json", "w") creates
\* or truncates the file, before any lock is taken.
MarkOpen(f) ==
    /\ wpc[f] = "open_w"
    /\ ckpt' = CkptTruncated
    /\ wpc' = [wpc EXCEPT ![f] = "lock_ex"]
    /\ UNCHANGED <<tree, call, ret, runs, mainvars, folder_results, index, processed,
                   ex_lock, temp_exists, temp_files, output>>

\* portalocker.lock(file, portalocker.LOCK_EX)
MarkLock(f) ==
    /\ wpc[f] = "lock_ex"
    /\ ex_lock = NoOne
    /\ ex_lock' = f
    /\ wpc' = [wpc EXCEPT ![f] = "dump"]
    /\ UNCHANGED <<tree, call, ret, runs, mainvars, folder_results, index, processed, diskvars>>

\* Faulty variant of MarkDumpUnlock: the lock is not released.
MarkDumpNoUnlock(f) ==
    /\ wpc[f] = "dump"
    /\ ex_lock = f
    /\ wpc' = [wpc EXCEPT ![f] = "close"]
    /\ UNCHANGED <<tree, call, ret, runs, mainvars, folder_results, index, processed,
                   ex_lock, diskvars>>

\* json.dump(list(processed), file) into the file object's buffer;
\* portalocker.unlock(file)
MarkDumpUnlock(f) ==
    /\ wpc[f] = "dump"
    /\ ex_lock = f
    /\ ex_lock' = NoOne
    /\ wpc' = [wpc EXCEPT ![f] = "close"]
    /\ UNCHANGED <<tree, call, ret, runs, mainvars, folder_results, index, processed, diskvars>>

\* The end of the with block closes the file and flushes the buffer;
\* mark_folder_as_processed and the task return, and their locals are gone.
MarkClose(f) ==
    /\ wpc[f] = "close"
    /\ ckpt' = FlushCkpt(ckpt, processed[f])
    /\ processed' = [processed EXCEPT ![f] = {}]
    /\ wpc' = [wpc EXCEPT ![f] = "done"]
    /\ UNCHANGED <<tree, call, ret, runs, mainvars, folder_results, index, ex_lock,
                   temp_exists, temp_files, output>>

\* ------------------------------------------------------- kill and rerun
Running == mainpc \notin {"done", "crashed", "killed"}

\* The run (the main process and its pool) is killed: the files stay as
\* they are, everything else is gone.
Kill ==
    /\ Running
    /\ mainpc' = "killed"
    /\ dcm_folders' = <<>>
    /\ processed_folders' = {}
    /\ partial_files' = <<>>
    /\ all_data' = <<>>
    /\ wpc' = NoTask
    /\ folder_results' = NoResults
    /\ index' = NoIndex
    /\ processed' = NoProcessed
    /\ ex_lock' = NoOne
    /\ UNCHANGED <<tree, call, ret, runs, diskvars>>

\* main() is invoked again with the same root and output path.
Rerun ==
    /\ mainpc \in {"crashed", "killed"}
    /\ runs < MaxRuns
    /\ runs' = runs + 1
    /\ mainpc' = "create_temp_dir"
    /\ dcm_folders' = <<>>
    /\ processed_folders' = {}
    /\ partial_files' = <<>>
    /\ all_data' = <<>>
    /\ wpc' = NoTask
    /\ folder_results' = NoResults
    /\ index' = NoIndex
    /\ processed' = NoProcessed
    /\ ex_lock' = NoOne
    /\ UNCHANGED <<tree, call, ret, diskvars>>

\* ------------------------------------------------------------------ Spec
Next ==
    \/ create_temp_dir
    \/ find_dcm_folders
    \/ MainLoad
    \/ Submit
    \/ Join
    \/ MergeList
    \/ MergeRead
    \/ WriteCsvOpen
    \/ WriteCsvClose
    \/ WriteCsvFail
    \/ RmTree
    \/ RemoveCkpt
    \/ \E f \in Folders : SkipFolder(f)
    \/ \E f \in Folders : ProcessFolder(f)
    \/ \E f \in Folders : ProcessFolderFail(f)
    \/ \E f \in Folders : CountTemp(f)
    \/ \E f \in Folders : SavePartialOpen(f)
    \/ \E f \in Folders : SavePartialDump(f)
    \/ \E f \in Folders : SavePartialFail(f)
    \/ \E f \in Folders : MarkLoad(f)
    \/ \E f \in Folders : MarkOpen(f)
    \/ \E f \in Folders : MarkLock(f)
    \/ \E f \in Folders : MarkDumpUnlock(f)
    \/ \E f \in Folders : MarkClose(f)
    \/ Kill
    \/ Rerun

Spec == Init /\ [][Next]_vars

\* ------------------------------------------------- a re-invocation of main
\* The disk an earlier run leaves when it is killed while the checkpoint
\* file does not parse: a task had opened it with open(..., "w"), which
\* empties the file, and had not yet closed it, which writes the list (the
\* file is empty).  Some folders have a completely written
\* partial file, numbered by what their task counted in a directory that was
\* empty at first; the run that wrote them is run 0.
OldPartial(f, idx) ==
    [idx |-> idx, run |-> 0, folder |-> f, complete |-> TRUE,
     data |-> process_folder(f, <<1>>)]

OldTempFiles(folders) ==
    {{OldPartial(f, idx[f]) : f \in folders} :
        idx \in {i \in [folders -> 0..(Cardinality(folders) - 1)] :
                    \E f \in folders : i[f] = 0}}

InitRerun ==
    /\ tree \in {1..n : n \in 1..NumFolders}
    /\ runs = 1
    /\ mainpc = "create_temp_dir"
    /\ dcm_folders = <<>>
    /\ processed_folders = {}
    /\ partial_files = <<>>
    /\ all_data = <<>>
    /\ wpc = NoTask
    /\ folder_results = NoResults
    /\ index = NoIndex
    /\ processed = NoProcessed
    /\ ex_lock = NoOne
    /\ temp_exists = TRUE
    /\ \E saved \in (SUBSET tree) \ {{}} : temp_files \in OldTempFiles(saved)
    /\ ckpt = CkptTruncated
    /\ output = NoOutput
    /\ call = MainCall
    /\ ret = NoReturn

SpecRerun == InitRerun /\ [][Next]_vars

\* The disk an earlier run leaves when it is killed between the end of
\* merge_partial_results_and_cleanup and os.remove of the checkpoint file:
\* the table is written, in the order the partial files were listed, the
\* temp directory is gone, and the checkpoint file holds the list its last
\* writer dumped.
WrittenTable(order) ==
    [state |-> "complete",
     rows |-> SeqSum([k \in DOMAIN order |-> process_folder(order[k], <<1>>)])]

InitRecover ==
    /\ tree \in {1..n : n \in 1..NumFolders}
    /\ runs = 1
    /\ mainpc = "create_temp_dir"
    /\ dcm_folders = <<>>
    /\ processed_folders = {}
    /\ partial_files = <<>>
    /\ all_data = <<>>
    /\ wpc = NoTask
    /\ folder_results = NoResults
    /\ index = NoIndex
    /\ processed = NoProcessed
    /\ ex_lock = NoOne
    /\ temp_exists = FALSE
    /\ temp_files = {}
    /\ \E marked \in (SUBSET tree) \ {{}} :
           ckpt = [state |-> "valid", set |-> marked, len |-> Cardinality(marked)]
    /\ \E order \in Perms(Cardinality(tree)) : output = WrittenTable(order)
    /\ call = MainCall
    /\ ret = NoReturn

SpecRecover == InitRecover /\ [][Next]_vars

\* ------------------------------------------- a run that is left to itself
\* No task fails, the table can be written and nothing kills the run.  It
\* starts on a fresh disk, or on the disk of an earlier run that was killed
\* when some folders were saved and marked and no other task had written
\* anything.
InitResumed ==
    /\ tree \in {1..n : n \in 1..NumFolders}
    /\ runs = 1
    /\ mainpc = "create_temp_dir"
    /\ dcm_folders = <<>>
    /\ processed_folders = {}
    /\ partial_files = <<>>
    /\ all_data = <<>>
    /\ wpc = NoTask
    /\ folder_results = NoResults
    /\ index = NoIndex
    /\ processed = NoProcessed
    /\ ex_lock = NoOne
    /\ temp_exists = TRUE
    /\ \E saved \in (SUBSET tree) \ {{}} :
           /\ temp_files \in OldTempFiles(saved)
           /\ ckpt = [state |-> "valid", set |-> saved, len |-> Cardinality(saved)]
    /\ output = NoOutput
    /\ call = MainCall
    /\ ret = NoReturn

InitFair == Init \/ InitResumed

MainStep ==
    \/ create_temp_dir
    \/ find_dcm_folders
    \/ MainLoad
    \/ Submit
    \/ Join
    \/ MergeList
    \/ MergeRead
    \/ WriteCsvOpen
    \/ WriteCsvClose
    \/ RmTree
    \/ RemoveCkpt

TaskStep(f) ==
    \/ SkipFolder(f)
    \/ ProcessFolder(f)
    \/ CountTemp(f)
    \/ SavePartialOpen(f)
    \/ SavePartialDump(f)
    \/ MarkLoad(f)
    \/ MarkOpen(f)
    \/ MarkLock(f)
    \/ MarkDumpUnlock(f)
    \/ MarkClose(f)

NextFair == MainStep \/ \E f \in Folders : TaskStep(f)

\* The main process and every worker process of the pool get to run; a lock
\* request that can be granted is granted.
Fairness ==
    /\ WF_vars(MainStep)
    /\ \A f \in Folders : WF_vars(TaskStep(f))

SpecFair == InitFair /\ [][NextFair]_vars /\ Fairness

\* ======================================================= functions alone
\* The functions of the program that compute a value from their argument
\* are also run on their own: `call` holds the function and its argument,
\* `ret` what it returned.  A Python call either returns a value or raises.
Returns(v) == [done |-> TRUE, raises |-> FALSE, val |-> v]
Raises(e) == [done |-> TRUE, raises |-> TRUE, val |-> e]

\* ------------------------------------------------------------ stringifier
\* Decoded values: t is the Python type, the other fields its content.
\*   NoneType
\*   int               n = the number
\*   str               s = the text
\*   bytes             b = the bytes
\*   list, set         items = the elements (in iteration order)
\*   dict              keys and items = the keys and their elements
\*   broken            an object whose __str__ raises; s = the message
PyNone == [t |-> "NoneType", n |-> 0, s |-> "", b |-> <<>>, keys |-> <<>>, items |-> <<>>]
PyInt(n) == [PyNone EXCEPT !.t = "int", !.n = n]
PyStr(x) == [PyNone EXCEPT !.t = "str", !.s = x]
PyBytes(bs) == [PyNone EXCEPT !.t = "bytes", !.b = bs]
PyList(es) == [PyNone EXCEPT !.t = "list", !.items = es]
PySet(es) == [PyNone EXCEPT !.t = "set", !.items = es]
PyDict(ks, es) == [PyNone EXCEPT !.t = "dict", !.keys = ks, !.items = es]
PyBroken(msg) == [PyNone EXCEPT !.t = "broken", !.s = msg]

Digits == "0123456789abcdef"
Digit(k) == SubSeq(Digits, k + 1, k + 1)

\* str(n) of a number below 1000
IntStr(n) ==
    IF n < 10 THEN Digit(n)
    ELSE IF n < 100 THEN Digit(n \div 10) \o Digit(n % 10)
    ELSE Digit(n \div 100) \o Digit((n \div 10) % 10) \o Digit(n % 10)

\* bytes.hex(): two lower-case hexadecimal digits per byte
RECURSIVE BytesHex(_)
BytesHex(bs) ==
    IF bs = <<>> THEN ""
    ELSE Digit(Head(bs) \div 16) \o Digit(Head(bs) % 16) \o BytesHex(Tail(bs))

\* json.dumps handles None, numbers, strings, lists and dicts of them.
JsonSerializable(e) == e.t \in {"NoneType", "int", "str"}

JsonScalar(e) ==
    IF e.t = "NoneType" THEN "null"
    ELSE IF e.t = "int" THEN IntStr(e.n)
    ELSE "\"" \o e.s \o "\""

RECURSIVE JsonItems(_)
JsonItems(es) ==
    IF es = <<>> THEN ""
    ELSE JsonScalar(Head(es)) \o
         (IF Tail(es) = <<>> THEN "" ELSE ", " \o JsonItems(Tail(es)))

RECURSIVE JsonPairs(_, _)
JsonPairs(ks, es) ==
    IF es = <<>> THEN ""
    ELSE "\"" \o Head(ks) \o "\": " \o JsonScalar(Head(es)) \o
         (IF Tail(es) = <<>> THEN "" ELSE ", " \o JsonPairs(Tail(ks), Tail(es)))

NotSerializable(t) == "Object of type " \o t \o " is not JSON serializable"

\* json.dumps(value) for a list, dict or set
json_dumps(value) ==
    IF value.t = "set" THEN Raises(NotSerializable("set"))
    ELSE LET elems == value.items
             bad == {k \in DOMAIN elems : ~JsonSerializable(elems[k])}
         IN IF bad # {}
            THEN Raises(NotSerializable(
                     elems[CHOOSE k \in bad : \A j \in bad : k <= j].t))
            ELSE IF value.t = "list"
                 THEN Returns("[" \o JsonItems(value.items) \o "]")
                 ELSE Returns("{" \o JsonPairs(value.keys, value.items) \o "}")

\* str(value)
py_str(value) ==
    IF value.t = "int" THEN Returns(IntStr(value.n))
    ELSE IF value.t = "str" THEN Returns(value.s)
    ELSE Raises(value.s)

\* The try block of stringify_value; an exception gives "Error: <message>".
TryStringify(value) ==
    LET r == IF value.t \in {"list", "dict", "set"} THEN json_dumps(value)
             ELSE py_str(value)
    IN IF r.raises THEN Returns("Error: " \o r.val) ELSE r

\* Faulty variant of stringify_value: the composite test comes first and
\* nothing is caught.
stringify_value_uncaught(value) ==
    IF value.t \in {"list", "dict", "set"} THEN json_dumps(value)
    ELSE IF value.t = "NoneType" THEN Returns("N/A")
    ELSE IF value.t = "bytes" THEN Returns(BytesHex(value.b))
    ELSE py_str(value)

stringify_value(value) ==
    IF value.t = "NoneType" THEN Returns("N/A")
    ELSE IF value.t = "bytes" THEN Returns(BytesHex(value.b))
    ELSE TryStringify(value)

\* ------------------------------------------------------------ merge table
\* A cell of the data frame: a string or the missing value.
Cell(s) == [null |-> FALSE, s |-> s]
Null == [null |-> TRUE, s |-> ""]

\* Faulty variant of replace_with_none: the spelling "NONE" is forgotten.
replace_with_none_short(value) ==
    IF value.null \/ value.s \in {"", "N/A", "None"} THEN Null ELSE value

\* replace_with_none: value in ["", "N/A", "None", "NONE", None]
replace_with_none(value) ==
    IF value.null \/ value.s \in {"", "N/A", "None", "NONE"} THEN Null ELSE value

\* Faulty variant of DataFrame: the columns are those of the first record.
DataFrameFirstRecord(records) ==
    [columns |-> IF records = <<>> THEN {} ELSE DOMAIN records[1],
     rows |-> [k \in DOMAIN records |->
                 [c \in (IF records = <<>> THEN {} ELSE DOMAIN records[1]) |->
                     IF c \in DOMAIN records[k] THEN Cell(records[k][c])
                                                ELSE Null]]]

\* pd.DataFrame(all_data): one column per key of any record, one row per
\* record, the missing value where a record has no such key.
DataFrame(records) ==
    [columns |-> UNION {DOMAIN records[k] : k \in DOMAIN records},
     rows |-> [k \in DOMAIN records |->
                 [c \in UNION {DOMAIN records[j] : j \in DOMAIN records} |->
                     IF c \in DOMAIN records[k] THEN Cell(records[k][c])
                                                ELSE Null]]]

\* final_df.with_columns(pl.all().map_elements(replace_with_none))
Normalized(df) ==
    [columns |-> df.columns,
     rows |-> [k \in DOMAIN df.rows |->
                 [c \in df.columns |-> replace_with_none(df.rows[k][c])]]]

\* Faulty variant of KeptColumns: a column with any missing cell is dropped.
KeptColumnsNoNull(df) ==
    {c \in df.columns : \A k \in DOMAIN df.rows : ~df.rows[k][c].null}

\* [s.name for s in final_df if not (s.null_count() == final_df.height)]
KeptColumns(df) ==
    {c \in df.columns :
        Cardinality({k \in DOMAIN df.rows : df.rows[k][c].null}) # Len(df.rows)}

Selected(df, cols) ==
    [columns |-> cols,
     rows |-> [k \in DOMAIN df.rows |-> [c \in cols |-> df.rows[k][c]]]]

\* The table merge_partial_results_and_cleanup writes for all_data.
FinalTable(records) ==
    LET df == Normalized(DataFrame(records))
    IN Selected(df, KeptColumns(df))

\* ------------------------------------------------------ files of a folder
\* str.endswith and os.path.join
EndsWith(s, suffix) ==
    Len(s) >= Len(suffix) /\ SubSeq(s, Len(s) - Len(suffix) + 1, Len(s)) = suffix

path_join(a, b) ==
    IF Len(b) > 0 /\ SubSeq(b, 1, 1) = "/" THEN b
    ELSE IF a = "" \/ EndsWith(a, "/") THEN a \o b
    ELSE a \o "/" \o b

\* A directory entry: its name, whether it is a file or a directory,
\* whether pydicom can read it, and the elements dicom_tag_to_dict collects.
Entry(name, kind, decodes, tags) ==
    [name |-> name, kind |-> kind, decodes |-> decodes, tags |-> tags]

\* dicom_tag_to_dict: the dict of the elements, or the exception of dcmread.
dicom_tag_to_dict(entry) ==
    IF entry.kind = "dir" THEN Raises("IsADirectoryError")
    ELSE IF ~entry.decodes THEN Raises("InvalidDicomError")
    ELSE Returns(entry.tags)

\* The dict process_file returns when nothing raised: every value
\* stringified, then DicomPath set.
FullRecord(filepath, tags) ==
    [k \in {tags.keys[i] : i \in DOMAIN tags.keys} \union {"DicomPath"} |->
        IF k = "DicomPath" THEN filepath
        ELSE stringify_value(
                 tags.items[CHOOSE i \in DOMAIN tags.keys : tags.keys[i] = k]).val]

\* process_file on the entry found at filepath
process_file_entry(filepath, entry) ==
    LET d == dicom_tag_to_dict(entry)
    IN IF d.raises \/ \E i \in DOMAIN d.val.items : stringify_value(d.val.items[i]).raises
       THEN Returns([DicomPath |-> filepath])
       ELSE Returns(FullRecord(filepath, d.val))

\* process_files_chunk on files given as <<filepath, entry>>
process_entries_chunk(files) ==
    [i \in DOMAIN files |-> process_file_entry(files[i][1], files[i][2]).val]

\* The entries of the listing with the .dcm suffix, in listing order.
RECURSIVE DcmEntries(_)
DcmEntries(listing) ==
    IF listing = <<>> THEN <<>>
    ELSE (IF EndsWith(Head(listing).name, ".dcm") THEN <<Head(listing)>> ELSE <<>>)
         \o DcmEntries(Tail(listing))

\* process_folder on a folder whose os.listdir gives `listing`; the chunks
\* complete in the order `order`.
process_folder_entries(folder, listing, order) ==
    LET files == [i \in DOMAIN DcmEntries(listing) |->
                     <<path_join(folder, DcmEntries(listing)[i].name),
                       DcmEntries(listing)[i]>>]
        chunks == Chunks(files)
    IN SeqSum([k \in DOMAIN chunks |-> process_entries_chunk(chunks[order[k]])])

\* -------------------------------------------------- checkpoint file text
\* json.load on the text of a file.  The texts read here hold strings without
\* escapes, numbers without sign or fraction, null and arrays of these;
\* any other text is refused as the decoder refuses it.
Ch(text, i) == IF i \in 1..Len(text) THEN SubSeq(text, i, i) ELSE ""

RECURSIVE SkipWs(_, _)
SkipWs(text, i) ==
    IF Ch(text, i) \in {" ", "\n", "\t", "\r"} THEN SkipWs(text, i + 1) ELSE i

\* The position of the first character from i on that is not in `set`.
RECURSIVE Span(_, _, _)
Span(text, i, set) ==
    IF Ch(text, i) \in set THEN Span(text, i + 1, set) ELSE i

RECURSIVE StrToInt(_)
StrToInt(x) ==
    IF x = "" THEN 0
    ELSE 10 * StrToInt(SubSeq(x, 1, Len(x) - 1)) +
         (CHOOSE d \in 0..9 : Digit(d) = Ch(x, Len(x)))

DecDigits == {Digit(d) : d \in 0..9}
Parsed(val, next) == [ok |-> TRUE, val |-> val, next |-> next]
NotParsed == [ok |-> FALSE, val |-> PyNone, next |-> 0]

\* The index of the closing quote of the string opened before i, or 0.
RECURSIVE ClosingQuote(_, _)
ClosingQuote(text, i) ==
    IF i > Len(text) \/ Ch(text, i) = "\\" THEN 0
    ELSE IF Ch(text, i) = "\"" THEN i
    ELSE ClosingQuote(text, i + 1)

RECURSIVE ParseValue(_, _)
RECURSIVE ParseElems(_, _, _)

\* The elements of an array from position i on, after `acc`.
ParseElems(text, i, acc) ==
    LET e == ParseValue(text, SkipWs(text, i))
        j == SkipWs(text, e.next)
    IN IF ~e.ok THEN NotParsed
       ELSE IF Ch(text, j) = "," THEN ParseElems(text, j + 1, Append(acc, e.val))
       ELSE IF Ch(text, j) = "]" THEN Parsed(PyList(Append(acc, e.val)), j + 1)
       ELSE NotParsed

\* The JSON value that starts at position i.
ParseValue(text, i) ==
    IF Ch(text, i) = "\""
    THEN LET q == ClosingQuote(text, i + 1)
         IN IF q = 0 THEN NotParsed
            ELSE Parsed(PyStr(SubSeq(text, i + 1, q - 1)), q + 1)
    ELSE IF Ch(text, i) = "["
    THEN IF Ch(text, SkipWs(text, i + 1)) = "]"
         THEN Parsed(PyList(<<>>), SkipWs(text, i + 1) + 1)
         ELSE ParseElems(text, i + 1, <<>>)
    ELSE IF Ch(text, i) \in DecDigits
    THEN Parsed(PyInt(StrToInt(SubSeq(text, i, Span(text, i, DecDigits) - 1))),
                Span(text, i, DecDigits))
    ELSE IF SubSeq(text, i, IF i + 3 <= Len(text) THEN i + 3 ELSE Len(text)) = "null"
    THEN Parsed(PyNone, i + 4)
    ELSE NotParsed

\* json.load: one value with white space around it, else JSONDecodeError.
json_load(text) ==
    LET r == ParseValue(text, SkipWs(text, 1))
    IN IF r.ok /\ SkipWs(text, r.next) > Len(text)
       THEN Returns(r.val)
       ELSE Raises("JSONDecodeError")

\* set(data): the elements of a list, the characters of a string; a list
\* inside the list is unhashable, and None and numbers are not iterable.
py_set(data) ==
    IF data.t = "list"
    THEN IF \E i \in DOMAIN data.items : data.items[i].t = "list"
         THEN Raises("TypeError")
         ELSE Returns({data.items[i] : i \in DOMAIN data.items})
    ELSE IF data.t = "str"
    THEN Returns({PyStr(Ch(data.s, i)) : i \in 1..Len(data.s)})
    ELSE Raises("TypeError")

\* A file of the disk: absent, or present with its text.
NoFile == [exists |-> FALSE, text |-> ""]
File(text) == [exists |-> TRUE, text |-> text]

\* Faulty variant of load_checkpoint_file: JSONDecodeError is not caught.
load_checkpoint_file_uncaught(file) ==
    IF ~file.exists THEN Returns({})
    ELSE LET data == json_load(file.text)
         IN IF data.raises THEN data ELSE py_set(data.val)

\* load_processed_folders on the file at <base_dir>/processed_folders.json
load_checkpoint_file(file) ==
    IF ~file.exists THEN Returns({})
    ELSE LET data == json_load(file.text)
         IN IF data.raises THEN Returns({}) ELSE py_set(data.val)

\* json.dump(list(processed), file): the text mark_folder_as_processed writes
DumpedList(folders) ==
    json_dumps(PyList([i \in DOMAIN folders |-> PyStr(folders[i])])).val

\* ------------------------------------------------------- directory trees
\* A disk holds directories, named by the components of their absolute
\* path, and says which of them hold a .dcm file directly.  Relative paths
\* are resolved against the working directory of the process.
Cwd == "/w"

\* The index of the first "/" of text from i on, or Len(text) + 1.
RECURSIVE NextSlash(_, _)
NextSlash(text, i) ==
    IF i > Len(text) \/ Ch(text, i) = "/" THEN i ELSE NextSlash(text, i + 1)

RECURSIVE SplitPath(_)
SplitPath(text) ==
    IF text = "" THEN <<>>
    ELSE LET k == NextSlash(text, 1)
         IN (IF k = 1 THEN <<>> ELSE <<SubSeq(text, 1, k - 1)>>)
            \o SplitPath(SubSeq(text, k + 1, Len(text)))

\* "." stays in place and ".." climbs to the parent.
RECURSIVE Climb(_, _)
Climb(parts, done) ==
    IF parts = <<>> THEN done
    ELSE IF Head(parts) = "." THEN Climb(Tail(parts), done)
    ELSE IF Head(parts) = ".."
    THEN Climb(Tail(parts),
               IF done = <<>> THEN done ELSE SubSeq(done, 1, Len(done) - 1))
    ELSE Climb(Tail(parts), Append(done, Head(parts)))

\* The directory a path string names.
Resolve(path) == Climb(SplitPath(path_join(Cwd, path)), <<>>)

IsPrefix(a, b) == Len(a) <= Len(b) /\ SubSeq(b, 1, Len(a)) = a

\* ---------------------------------------------- the paths next to the output
\* The index of the last "/" of text up to i, or 0.
RECURSIVE LastSlash(_, _)
LastSlash(text, i) ==
    IF i = 0 \/ Ch(text, i) = "/" THEN i ELSE LastSlash(text, i - 1)

RECURSIVE RStripSlash(_)
RStripSlash(text) ==
    IF text # "" /\ EndsWith(text, "/")
    THEN RStripSlash(SubSeq(text, 1, Len(text) - 1))
    ELSE text

\* os.path.dirname: the text up to the last "/", without trailing slashes
\* unless it consists of slashes only; "" for a bare file name.
dirname(path) ==
    LET head == SubSeq(path, 1, LastSlash(path, Len(path)))
    IN IF RStripSlash(head) = "" THEN head ELSE RStripSlash(head)

temp_dir_path(output_path) == path_join(dirname(output_path), "temp_processing")

\* The f-string of load_processed_folders, mark_folder_as_processed and main.
checkpoint_path(output_path) == dirname(output_path) \o "/processed_folders.json"

\* The directory that holds what a path names.
Parent(path) ==
    LET parts == Resolve(path)
    IN IF parts = <<>> THEN parts ELSE SubSeq(parts, 1, Len(parts) - 1)

\* The names of the subdirectories of a directory.
SubdirNames(disk, dir) ==
    {d[Len(d)] : d \in {e \in disk.dirs : Len(e) = Len(dir) + 1 /\ IsPrefix(dir, e)}}

\* The dirpaths os.walk(top) yields: top itself as it was given, then
\* os.path.join(dirpath, name) for every subdirectory; nothing at all when
\* top is not a directory.
RECURSIVE WalkPaths(_, _)
WalkPaths(disk, top) ==
    IF Resolve(top) \notin disk.dirs THEN {}
    ELSE {top} \union
         UNION {WalkPaths(disk, path_join(top, name)) :
                    name \in SubdirNames(disk, Resolve(top))}

\* check_dcm_files(directory): the dirpaths the walk can reach first among
\* those holding a .dcm file.  A directory is walked before the directories
\* below it; the order of its subdirectories is that of os.listdir.
check_dcm_files(disk, directory) ==
    LET hits == {q \in WalkPaths(disk, directory) : Resolve(q) \in disk.dcm}
    IN {q \in hits :
           ~\E a \in hits : a # q /\ IsPrefix(Resolve(a), Resolve(q))}

\* Python's order of strings, for the characters of the paths used here.
Alphabet == "./abdw"
Rank(c) == CHOOSE i \in 1..Len(Alphabet) : Ch(Alphabet, i) = c

RECURSIVE StrLess(_, _)
StrLess(x, y) ==
    IF y = "" THEN FALSE
    ELSE IF x = "" THEN TRUE
    ELSE IF Ch(x, 1) # Ch(y, 1) THEN Rank(Ch(x, 1)) < Rank(Ch(y, 1))
    ELSE StrLess(SubSeq(x, 2, Len(x)), SubSeq(y, 2, Len(y)))

RECURSIVE SortedStrings(_)
SortedStrings(S) ==
    IF S = {} THEN <<>>
    ELSE LET m == CHOOSE x \in S : \A y \in S : x = y \/ StrLess(x, y)
         IN <<m>> \o SortedStrings(S \ {m})

\* os.path.join(root_dir, subdir) for subdir, _, _ in os.walk(root_dir)
CheckedPaths(disk, root_dir) ==
    {path_join(root_dir, subdir) : subdir \in WalkPaths(disk, root_dir)}

\* dcm_folders after the as_completed loop: the futures complete in any
\* order, and each appends its result unless it is None.
RECURSIVE ResultLists(_, _)
ResultLists(disk, checked) ==
    IF checked = {} THEN {<<>>}
    ELSE UNION {{(IF q = "" THEN <<>> ELSE <<q>>) \o rest :
                    q \in (IF check_dcm_files(disk, c) = {} THEN {""}
                           ELSE check_dcm_files(disk, c)),
                    rest \in ResultLists(disk, checked \ {c})} :
                c \in checked}

\* Faulty variant of DedupSorted: the list is returned as it was collected.
DedupSortedNot(folders) == folders

\* dcm_folders = list(set(dcm_folders)); dcm_folders.sort()
DedupSorted(folders) == SortedStrings({folders[i] : i \in DOMAIN folders})

\* The lists find_dcm_folders(root_dir) can return.
find_dcm_folders_on(disk, root_dir) ==
    {DedupSorted(folders) :
        folders \in ResultLists(disk, CheckedPaths(disk, root_dir))}

\* ------------------------------------------------- the functions' inputs
MaxElems == 2
Elems == {PyNone, PyInt(7), PyStr("a"), PyBytes(<<1>>)}
ElemSeqs == UNION {[1..n -> Elems] : n \in 0..MaxElems}
\* The keys of a dict of n elements.
Keys(n) == [k \in 1..n |-> "k" \o Digit(k)]

\* The decoded values stringify_value is called with.
Values ==
    {PyNone} \union
    {PyBytes(bs) : bs \in {<<>>, <<0>>, <<255>>, <<1, 171>>, <<16, 9>>}} \union
    {PyInt(n) : n \in {0, 7, 42, 255}} \union
    {PyStr(x) : x \in {"", "CT", "N/A", "None"}} \union
    {PyList(es) : es \in ElemSeqs} \union
    {PyDict(Keys(Len(es)), es) : es \in ElemSeqs} \union
    {PySet(es) : es \in ElemSeqs} \union
    {PyBroken("boom")}

\* The cells replace_with_none is called with.
Cells ==
    {Null} \union
    {Cell(x) : x \in {"", "N/A", "None", "NONE", "none", "n/a", "NA", " ",
                      "N/A ", "null", "0", "CT"}}

\* The records merged into the table: DicomPath and up to three fields,
\* each absent, populated or holding a sentinel.
FieldValues ==
    [a |-> {"1", "N/A", ""}, b |-> {"2", "None"}, c |-> {"3", "NONE"}]
Fields == DOMAIN FieldValues
RecordsOf(path) ==
    UNION {{[k \in F \union {"DicomPath"} |->
                IF k = "DicomPath" THEN path ELSE g[k]] :
                g \in [F -> UNION {FieldValues[k] : k \in Fields}]} :
           F \in SUBSET Fields}
Records(path) ==
    {r \in RecordsOf(path) :
        \A k \in DOMAIN r : k \in Fields => r[k] \in FieldValues[k]}
MaxRecords == 2
\* The k-th record is of a file of the k-th folder.
PathOf(k) == "/r/" \o Digit(k) \o "/1.dcm"
RecordSeqs ==
    UNION {{rs \in [1..n -> UNION {Records(PathOf(k)) : k \in 1..n}] :
                \A k \in 1..n : rs[k].DicomPath = PathOf(k)} :
           n \in 0..MaxRecords}

\* What a file can hold: two different sets of elements (the second with
\* values json.dumps refuses), no element at all, or nothing pydicom reads.
NoTags == PyDict(<<>>, <<>>)
Contents ==
    {[decodes |-> TRUE,
      tags |-> PyDict(<<"a", "b">>, <<PyStr("CT"), PyNone>>)],
     [decodes |-> TRUE,
      tags |-> PyDict(<<"b", "c">>, <<PyBytes(<<1, 171>>), PySet(<<PyInt(7)>>)>>)],
     [decodes |-> TRUE, tags |-> NoTags],
     [decodes |-> FALSE, tags |-> NoTags]}

DcmName(k) == "f" \o IntStr(k) \o ".dcm"

\* The chunks process_files_chunk is called with: up to MaxChunk files.
MaxChunk == 3
ChunksOfFiles ==
    UNION {{[k \in 1..n |->
                <<path_join("/r/A", DcmName(k)),
                  Entry(DcmName(k), "file", cs[k].decodes, cs[k].tags)>>] :
            cs \in [1..n -> Contents]} : n \in 0..MaxChunk}

\* The entries beside the readable .dcm files: other suffixes, and a
\* subdirectory whose name ends in .dcm.
OddEntries ==
    <<Entry("notes.txt", "file", FALSE, NoTags),
      Entry("IMG.DCM", "file", TRUE, NoTags),
      Entry("series.dcm", "dir", FALSE, NoTags)>>

\* The folders process_folder is called with: up to MaxEntries entries, at
\* most one of them odd and at most one a .dcm file that does not decode.
MaxEntries == 13
Listings ==
    UNION {{[k \in 1..n |->
                IF k = odd THEN OddEntries[which]
                ELSE Entry(DcmName(k), "file", k # bad,
                           PyDict(<<"a">>, <<PyInt(k)>>))] :
            odd \in 0..n, which \in DOMAIN OddEntries, bad \in 0..n} :
           n \in 0..MaxEntries}

\* The folder lists a checkpoint can hold, and the texts of the file:
\* a dumped list, a dumped list cut short, a shorter dumped list written
\* over a longer one, texts no JSON decoder accepts, and JSON texts that are
\* not a list of strings.
FolderNames == {"/r/A", "/r/B", "/r/C"}
MaxNames == 2
NameSeqs == UNION {[1..n -> FolderNames] : n \in 0..MaxNames}
Dumped == {DumpedList(ns) : ns \in NameSeqs}
CutShort == UNION {{SubSeq(t, 1, k) : k \in 1..(Len(t) - 1)} : t \in Dumped}
WrittenOver ==
    {new \o SubSeq(old, Len(new) + 1, Len(old)) :
        <<new, old>> \in {p \in Dumped \X Dumped : Len(p[2]) > Len(p[1])}}
NotJson ==
    {"{", "]", "nul", "['/r/A']", "[\"/r/A\",]", "[\"/r/A\" \"/r/B\"]",
     "[\"/r/A\"]]", "/r/A"}
OtherJson ==
    {"null", "7", "\"/r/A\"", "[[\"/r/A\"]]", " [ \"/r/A\" ]\n", "[7, null]"}
CheckpointFiles ==
    {NoFile} \union
    {File(t) : t \in {""} \union Dumped \union CutShort \union WrittenOver
                     \union NotJson \union OtherJson}

\* The disks find_dcm_folders is run on: the working directory /w and the
\* directory /w/d always exist, the others may; any of them may hold a .dcm
\* file.  The roots name /w/d or /w, absolutely or relatively.
AlwaysDirs == {<<"w">>, <<"w", "d">>}
MaybeDirs == {<<"w", "d", "a">>, <<"w", "d", "d">>, <<"w", "d", "d", "a">>}
Disks ==
    UNION {{[dirs |-> AlwaysDirs \union more, dcm |-> dcm] :
                dcm \in SUBSET (AlwaysDirs \union more)} :
           more \in {m \in SUBSET MaybeDirs :
                        \A e \in m : Len(e) = 2 \/ SubSeq(e, 1, Len(e) - 1) \in
                                                       AlwaysDirs \union m}}
Roots == {"/w/d", "/w/d/", "d", "./d", "."}

\* The output paths of a run: the default of --output, and paths with a
\* relative or an absolute directory part.
OutputPaths ==
    {"dicom_data.csv", "./dicom_data.csv", "out/dicom_data.csv",
     "/w/out/dicom_data.csv", "/dicom_data.csv", "../dicom_data.csv"}

\* ------------------------------------------------ the functions' actions
\* No run of main() is under way while a function is called on its own.
NoRun ==
    /\ tree = {}
    /\ runs = 1
    /\ mainpc = "not_started"
    /\ dcm_folders = <<>>
    /\ processed_folders = {}
    /\ partial_files = <<>>
    /\ all_data = <<>>
    /\ wpc = NoTask
    /\ folder_results = NoResults
    /\ index = NoIndex
    /\ processed = NoProcessed
    /\ ex_lock = NoOne
    /\ temp_exists = FALSE
    /\ temp_files = {}
    /\ ckpt = CkptMissing
    /\ output = NoOutput

Called(fn) == call.fn = fn /\ ~ret.done
Returned(fn) == call.fn = fn /\ ret.done
SameRun == UNCHANGED <<tree, runs, mainvars, taskvars, diskvars, call>>

CallStringify ==
    /\ Called("stringify_value")
    /\ ret' = stringify_value(call.of)
    /\ SameRun

CallReplaceWithNone ==
    /\ Called("replace_with_none")
    /\ ret' = Returns(replace_with_none(call.of))
    /\ SameRun

CallProcessFilesChunk ==
    /\ Called("process_files_chunk")
    /\ ret' = Returns(process_entries_chunk(call.of))
    /\ SameRun

CallProcessFolder ==
    /\ Called("process_folder")
    /\ \E order \in Perms(Len(Chunks(DcmEntries(call.of.listing)))) :
           ret' = Returns(process_folder_entries(call.of.folder,
                                                 call.of.listing, order))
    /\ SameRun

CallLoadProcessedFolders ==
    /\ Called("load_processed_folders")
    /\ ret' = load_checkpoint_file(call.of)
    /\ SameRun

CallFindDcmFolders ==
    /\ Called("find_dcm_folders")
    /\ \E folders \in find_dcm_folders_on(call.of.disk, call.of.root_dir) :
           ret' = Returns(folders)
    /\ SameRun

CallCreateTempDir ==
    /\ Called("create_temp_dir")
    /\ ret' = Returns(temp_dir_path(call.of))
    /\ SameRun

\* Lines 142-146 of merge_partial_results_and_cleanup on all_data.
CallMergeTable ==
    /\ Called("merge_partial_results_and_cleanup")
    /\ ret' = Returns(FinalTable(call.of))
    /\ SameRun

\* -------------------------------------------- the functions' specification
InitCalls ==
    /\ NoRun
    /\ ret = NoReturn
    /\ \/ call \in {[fn |-> "stringify_value", of |-> v] : v \in Values}
       \/ call \in {[fn |-> "replace_with_none", of |-> v] : v \in Cells}
       \/ call \in {[fn |-> "merge_partial_results_and_cleanup", of |-> rs] :
                       rs \in RecordSeqs}
       \/ call \in {[fn |-> "load_processed_folders", of |-> file] :
                       file \in CheckpointFiles}
       \/ call \in {[fn |-> "find_dcm_folders",
                      of |-> [root_dir |-> root, disk |-> disk]] :
                       root \in Roots, disk \in Disks}
       \/ call \in {[fn |-> "create_temp_dir", of |-> output_path] :
                       output_path \in OutputPaths}
       \/ call \in {[fn |-> "process_files_chunk", of |-> fs] :
                       fs \in ChunksOfFiles}
       \/ call \in {[fn |-> "process_folder",
                      of |-> [folder |-> "/r/A", listing |-> ls]] :
                       ls \in Listings}

NextCalls ==
    \/ CallStringify
    \/ CallReplaceWithNone
    \/ CallMergeTable
    \/ CallProcessFilesChunk
    \/ CallLoadProcessedFolders
    \/ CallFindDcmFolders
    \/ CallCreateTempDir
    \/ CallProcessFolder

SpecCalls == InitCalls /\ [][NextCalls]_vars

\* ================================================================ claims
\* The folder ids the checkpoint file holds.
CkptFolders == load_processed_folders(ckpt)

\* A task that is inside mark_folder_as_processed.
Marking(f) == wpc[f] \in {"load", "open_w", "lock_ex", "dump", "close"}

\* The table of one uninterrupted run: the records of every folder, once.
ExpectedRows == SeqSum([k \in 1..Cardinality(tree) |->
                          process_folder(SortedSeq(tree)[k], <<1>>)])

RowsOf(f, rows) == {k \in DOMAIN rows : rows[k].DicomPath[1] = f}

\* C1: mark_folder_as_processed(folder) starts only after save_partial_results
\* has returned for that folder, so a task that is marking its folder has a
\* completely written partial file; and as long as no merge stage has written
\* to the output path (every run so far was killed or ended before it), every
\* folder id in the checkpoint file has a completely written partial file in
\* the temp directory.
C1_SaveBeforeMark ==
    /\ \A f \in Folders : Marking(f) => f \in DurableFolders
    /\ output.state = "none" => CkptFolders \subseteq DurableFolders

C1_Witness ==
    /\ mainpc = "killed"
    /\ output.state = "none"
    /\ CkptFolders # {}
    /\ \E f \in tree : f \notin CkptFolders /\ f \in DurableFolders

\* C2: once all folder tasks of a run have returned, the persisted checkpoint
\* set is the set loaded at the start of the run united with every folder
\* that was marked in the run.
C2_NoLostUpdate ==
    mainpc = "merge_list" =>
        CkptFolders = processed_folders \cup {f \in tree : ShouldProcess(f)}

\* C3: a load_processed_folders call of a task that runs while another task
\* is inside the write of mark_folder_as_processed never reads a truncated or
\* partially written checkpoint file.
C3_NoTornRead ==
    [][\A f \in Folders :
          (/\ wpc[f] = "load"
           /\ wpc'[f] = "open_w"
           /\ \E g \in Folders \ {f} : wpc[g] \in {"lock_ex", "dump", "close"})
          => ckpt.state # "torn"]_vars

\* C4: whatever the points at which earlier runs were killed, a run that
\* completes leaves a final table with the records of one uninterrupted run,
\* each the same number of times.
C4_IdempotentResume ==
    (mainpc = "done" /\ output.state = "complete") =>
        SeqToBag(output.rows) = SeqToBag(ExpectedRows)

\* C5: whenever a merge stage has written the output, every .dcm file of
\* every folder found by the scanner has at least one row in it.
C5_NoDataLoss ==
    output.state = "complete" =>
        \A f \in tree : \A i \in 1..FilesPerFolder :
            \E k \in DOMAIN output.rows : output.rows[k].DicomPath = <<f, i>>

\* C6: a folder in the checkpoint set loaded at the start of a run is not
\* reprocessed in that run: its task never decodes, saves or marks, no
\* partial file of this run exists for it, and the records the merge stage
\* has read for it are those of the partial files it already had.
C6_NoReprocess ==
    \A f \in processed_folders :
        /\ wpc[f] \in {"none", "submitted", "done"}
        /\ \A p \in temp_files : p.folder = f => p.run # runs
        /\ mainpc = "write_open" =>
              Cardinality(RowsOf(f, all_data)) =
                 FilesPerFolder *
                    Cardinality({p \in temp_files : p.folder = f /\ p.complete})

C6_Witness ==
    /\ mainpc = "write_open"
    /\ \E f \in processed_folders : RowsOf(f, all_data) # {}
    /\ \E g \in tree : g \notin processed_folders /\ RowsOf(g, all_data) # {}

\* C7: in every reachable state a folder id is in the checkpoint file only
\* if a partial result file of that folder exists in the temp directory.
C7_CheckpointInvariant ==
    CkptFolders \subseteq {p.folder : p \in temp_files}

\* C8: when the merge stage found at least one partial file, a step removes a
\* partial file, the temp directory or the checkpoint file only when the
\* output holds the table of this merge; and a step in which write_csv fails
\* changes none of them.
C8_CleanupAfterWrite ==
    [][/\ (/\ partial_files # <<>>
           /\ \/ temp_files' # temp_files /\ temp_files' \subseteq temp_files
              \/ temp_exists /\ ~temp_exists'
              \/ ckpt.state # "missing" /\ ckpt'.state = "missing")
          => (output.state = "complete" /\ output.rows = all_data)
       /\ (mainpc \in {"write_open", "write_close"} /\ mainpc' = "crashed")
          => UNCHANGED <<temp_exists, temp_files, ckpt>>]_vars

C8_Witness ==
    /\ mainpc = "crashed"
    /\ partial_files # <<>>
    /\ output.state = "torn"
    /\ temp_files # {}
    /\ CkptFolders # {}

\* C9: the merge stage never starts deleting the temp directory while it
\* holds a partial file that could not be read.
C9_NoUnreadFileDeleted ==
    mainpc = "rmtree" => \A p \in temp_files : p.complete

\* C10: a failure of one folder task never aborts the pipeline: the run does
\* not end in an error because a task failed.
C10_FailureAbsorbed ==
    ~(mainpc = "crashed" /\ \E f \in Folders : wpc[f] = "failed")

\* C13: a run on an input tree without any .dcm file that has come to its
\* end (normally or with an error) has written no output file and has left
\* no temp directory.
C13_EmptyInputLeavesNothing ==
    (tree = {} /\ mainpc \in {"done", "crashed"}) =>
        (output.state = "none" /\ ~temp_exists /\ temp_files = {})

C13_Witness ==
    /\ tree = {}
    /\ mainpc = "crashed"
    /\ output.state = "none"
    /\ ~temp_exists

\* C14: a first run on an input tree without any .dcm file, with no
\* checkpoint file beforehand, does not end with an error.
C14_NoWorkIsNoError ==
    (tree = {} /\ runs = 1) => mainpc # "crashed"

\* C22: save_partial_results never opens a name that exists in the temp
\* directory, and a completely written partial file stays as it is until
\* the cleanup of the merge stage removes it.
C22_NoNameCollision ==
    [][/\ \A f \in Folders :
              (wpc[f] = "save_open" /\ wpc'[f] = "save_dump")
              => \A p \in temp_files : FileKey(p) # FileKey(NewPartial(f))
       /\ \A p \in temp_files :
              p.complete => (p \in temp_files' \/ mainpc = "rmtree")]_vars

\* Two written partial files carry the same index and differ in the random
\* part of the name only.
C22_Witness ==
    \E p, q \in temp_files :
        /\ p # q
        /\ p.idx = q.idx
        /\ p.complete /\ q.complete

\* C24: while merge_partial_results_and_cleanup lists, reads, writes or
\* removes, no folder task is under way: every submitted task has ended
\* without an exception.
MergeStage == {"merge_list", "merge_read", "write_open", "write_close", "rmtree"}

C24_MergeAfterAllTasks ==
    mainpc \in MergeStage => \A f \in Folders : wpc[f] \in {"none", "done"}

\* The merge reads the partial files of two tasks that both have ended.
C24_Witness ==
    /\ mainpc = "merge_read"
    /\ tree = Folders
    /\ \A f \in Folders : wpc[f] = "done"
    /\ \A f \in Folders : \E p \in temp_files : p.folder = f /\ p.run = runs

\* C27: no two partial files of the temp directory carry the same sequence
\* index.
C27_UniqueIndex ==
    \A p, q \in temp_files : p # q => p.idx # q.idx

\* The steps of a folder task, in the order of the code.
TaskSteps == <<"submitted", "count", "save_open", "save_dump", "load", "open_w",
               "lock_ex", "dump", "close", "done", "failed">>
StepOf(pc) == CHOOSE k \in DOMAIN TaskSteps : TaskSteps[k] = pc

\* C30: in a run every discovered folder is in the list of folders once and
\* is submitted as one task, which goes through its steps once (so it writes
\* at most one partial file and marks its folder at most once), and the
\* table written by the first run, which started with no checkpoint and an
\* empty temp directory, holds the rows of the .dcm files of the discovered
\* folders, one row for each file.
C30_OneTaskPerFolder ==
    [][/\ mainpc' \in {"load", "submit", "wait"} =>
              \A f \in tree :
                  Cardinality({i \in DOMAIN dcm_folders' : dcm_folders'[i] = f}) = 1
       /\ \A f \in Folders :
              /\ Cardinality({q \in temp_files' :
                                 q.folder = f /\ q.run = runs'}) <= 1
              /\ (wpc[f] = "none" /\ wpc'[f] # "none")
                     => /\ mainpc = "submit" /\ mainpc' = "wait"
                        /\ wpc'[f] = "submitted"
              /\ (wpc[f] # "none" /\ wpc'[f] \notin {"none", wpc[f]})
                     => StepOf(wpc[f]) < StepOf(wpc'[f])
       /\ (runs' = 1 /\ output'.state = "complete")
              => SeqToBag(output'.rows) = SeqToBag(ExpectedRows)]_vars

\* The first run has ended with the table of two folders written.
C30_Witness ==
    /\ runs = 1
    /\ mainpc = "done"
    /\ tree = Folders
    /\ output.state = "complete"
    /\ Len(output.rows) = NumFolders * FilesPerFolder

\* The temp directory holds one completely written partial file for every
\* discovered folder and nothing else.
TempIntact ==
    /\ \A f \in tree : Cardinality({p \in temp_files : p.folder = f}) = 1
    /\ \A p \in temp_files : p.complete /\ p.folder \in tree

\* A re-invoked run has loaded a checkpoint set that holds every discovered
\* folder, the temp directory is intact, and the merge has not begun to
\* remove it.
ResumedBeforeCleanup ==
    /\ runs > 1
    /\ tree # {}
    /\ processed_folders = tree
    /\ TempIntact
    /\ mainpc \in {"submit", "wait", "merge_list", "merge_read", "write_open",
                   "write_close"}

\* C25: a run re-invoked with every folder checkpointed and the temp state
\* intact decodes no file and writes no partial file, and the table it
\* writes holds the records of the preserved partial files: one row for
\* each file of the discovered folders.
C25_MergeRetried ==
    [][ResumedBeforeCleanup =>
           /\ \A f \in Folders : wpc'[f] \in {"none", "submitted", "done"}
           /\ temp_files' = temp_files
           /\ \A p \in temp_files : p.run < runs
           /\ mainpc' = "rmtree" =>
                  /\ output'.state = "complete"
                  /\ SeqToBag(output'.rows) = SeqToBag(ExpectedRows)]_vars

\* The re-invoked run has written the table from the partial files of the
\* run before it, which are all still there.
C25_Witness ==
    /\ runs > 1
    /\ tree = Folders
    /\ processed_folders = tree
    /\ TempIntact
    /\ \A p \in temp_files : p.run < runs
    /\ mainpc = "rmtree"
    /\ output.state = "complete"
    /\ Len(output.rows) = NumFolders * FilesPerFolder

\* C26: a re-invocation that finds a checkpoint file that does not parse,
\* and partial files of the earlier run in the temp directory, does not
\* crash on the file, reprocesses every discovered folder, and the table it
\* writes is the table of a fresh run: one row for each source file.
C26_AsFreshRun ==
    runs = 1 =>
        /\ mainpc \in {"submit", "wait"} \union MergeStage => processed_folders = {}
        /\ mainpc \in MergeStage \ {"rmtree"} =>
               \A f \in tree : \E p \in temp_files : p.folder = f /\ p.run = runs
        /\ (mainpc = "rmtree" /\ output.state = "complete") =>
               SeqToBag(output.rows) = SeqToBag(ExpectedRows)

\* The run has ended with the table written and the temp directory and the
\* checkpoint file removed.
Finished ==
    /\ mainpc = "done"
    /\ output.state = "complete"
    /\ ~temp_exists /\ temp_files = {}
    /\ ckpt = CkptMissing

C31_Recovered ==
    [][runs = 1 =>
           /\ \A f \in Folders : wpc'[f] \in {"none", "submitted", "done"}
           /\ mainpc' # "crashed"
           /\ output' = output
           /\ mainpc' = "done" => (ckpt' = CkptMissing /\ ~temp_exists')]_vars

\* --------------------------------------------------------- function claims
StartsWith(s, prefix) ==
    Len(s) >= Len(prefix) /\ SubSeq(s, 1, Len(prefix)) = prefix

Sentinels == {"", "N/A", "None", "NONE"}

\* C18: replace_with_none gives the missing value for "", "N/A", "None",
\* "NONE" and the missing value itself, gives back every other cell as it
\* is, and applying it to its own result changes nothing; in the merged
\* table every cell is normalized by itself, whatever the other cells hold.
C18_Normalization ==
    /\ Returned("replace_with_none") =>
        /\ ~ret.raises
        /\ (call.of.null \/ call.of.s \in Sentinels) => ret.val = Null
        /\ (~call.of.null /\ call.of.s \notin Sentinels) => ret.val = call.of
        /\ replace_with_none(ret.val) = ret.val
    /\ Returned("merge_partial_results_and_cleanup") =>
        \A k \in DOMAIN call.of : \A c \in ret.val.columns :
            ret.val.rows[k][c] =
                IF c \notin DOMAIN call.of[k] \/ call.of[k][c] \in Sentinels
                THEN Null ELSE Cell(call.of[k][c])

C18_Witness ==
    /\ Returned("replace_with_none")
    /\ call.of = Cell("NONE")
    /\ ret.val = Null

\* The rules of stringify_value, with the prefix of the failure text.
StringifyRules(prefix) ==
    LET value == call.of
        text == ret.val
        fails == \/ value.t = "set"
                 \/ \E k \in DOMAIN value.items : value.items[k].t = "bytes"
    IN /\ ~ret.raises
       /\ value.t = "NoneType" => text = "N/A"
       /\ value.t = "bytes" =>
              /\ Len(text) = 2 * Len(value.b)
              /\ text = BytesHex(value.b)
       /\ (value.t = "list" /\ ~fails) =>
              text = "[" \o JsonItems(value.items) \o "]"
       /\ (value.t = "dict" /\ ~fails) =>
              text = "{" \o JsonPairs(value.keys, value.items) \o "}"
       /\ (value.t \in {"list", "dict", "set"} /\ fails) =>
              StartsWith(text, prefix)
       /\ value.t = "int" => text = IntStr(value.n)
       /\ value.t = "str" => text = value.s
       /\ value.t = "broken" => text = prefix \o value.s

FieldNames(records) == UNION {DOMAIN records[k] : k \in DOMAIN records}

\* The records that populate field c: they have it, with no sentinel.
Populating(records, c) ==
    {k \in DOMAIN records : c \in DOMAIN records[k] /\ records[k][c] \notin Sentinels}

\* C16: the columns of the final table are the fields of all the records
\* together, less those no record populates; a record without a field has
\* the missing value in that column, and one row is written per record.
C16_SchemaUnion ==
    Returned("merge_partial_results_and_cleanup") =>
        /\ ret.val.columns =
               FieldNames(call.of) \
                   {c \in FieldNames(call.of) : Populating(call.of, c) = {}}
        /\ DOMAIN ret.val.rows = DOMAIN call.of
        /\ \A k \in DOMAIN call.of : \A c \in ret.val.columns :
               c \notin DOMAIN call.of[k] => ret.val.rows[k][c] = Null

C16_Witness ==
    /\ Returned("merge_partial_results_and_cleanup")
    /\ Len(call.of) = 2
    /\ DOMAIN call.of[1] = {"DicomPath", "a", "b"}
    /\ DOMAIN call.of[2] = {"DicomPath", "b", "c"}
    /\ ret.val.columns = {"DicomPath", "a", "b", "c"}
    /\ ret.val.rows[1]["c"] = Null
    /\ ret.val.rows[2]["a"] = Null
    /\ ret.val.rows[2]["c"] = Cell("3")

\* C17: a field is a column of the final table exactly when some record
\* has a value for it other than "", "N/A", "None" and "NONE".
C17_ColumnDrop ==
    Returned("merge_partial_results_and_cleanup") =>
        \A c \in Fields \union {"DicomPath"} :
            c \in ret.val.columns <=> Populating(call.of, c) # {}

C17_Witness ==
    /\ Returned("merge_partial_results_and_cleanup")
    /\ Len(call.of) = 2
    /\ "a" \in DOMAIN call.of[1] /\ call.of[1]["a"] = "N/A"
    /\ "a" \in DOMAIN call.of[2] /\ call.of[2]["a"] = ""
    /\ "b" \in DOMAIN call.of[1] /\ call.of[1]["b"] = "None"
    /\ "b" \in DOMAIN call.of[2] /\ call.of[2]["b"] = "2"
    /\ "a" \notin ret.val.columns
    /\ "b" \in ret.val.columns

\* A value json.dumps or str() refuses.
StringifyFails(value) ==
    \/ value.t \in {"set", "broken"}
    \/ /\ value.t \in {"list", "dict"}
       /\ \E i \in DOMAIN value.items : value.items[i].t = "bytes"

\* A file whose decoding or stringification fails.
FileFails(entry) ==
    \/ entry.kind = "dir"
    \/ ~entry.decodes
    \/ \E i \in DOMAIN entry.tags.items : StringifyFails(entry.tags.items[i])

\* C11: process_files_chunk raises nothing; the record of a file whose
\* decoding or stringification fails carries its path and one more field,
\* the error marker, and nothing else; the record of any other file carries
\* its path and its own elements, whatever the other files of the chunk are.
C11_DegradedRecord ==
    Returned("process_files_chunk") =>
        /\ ~ret.raises
        /\ Len(ret.val) = Len(call.of)
        /\ \A k \in DOMAIN call.of :
               LET filepath == call.of[k][1]
                   entry == call.of[k][2]
                   record == ret.val[k]
               IN /\ record["DicomPath"] = filepath
                  /\ FileFails(entry) =>
                         Cardinality(DOMAIN record \ {"DicomPath"}) = 1
                  /\ ~FileFails(entry) =>
                         DOMAIN record = {"DicomPath"} \union
                             {entry.tags.keys[i] : i \in DOMAIN entry.tags.keys}

\* The positions of the listing that are files with the .dcm suffix.
DcmFiles(listing) ==
    {k \in DOMAIN listing :
        listing[k].kind = "file" /\ EndsWith(listing[k].name, ".dcm")}

\* C12: process_folder returns one record for each file with the .dcm
\* suffix of the folder and no other record, each with the path of its file
\* as DicomPath, whether or not the file decodes; the chunks are of at most
\* ChunkSize files and together hold every file once.
C12_OneRecordPerFile ==
    Returned("process_folder") =>
        LET listing == call.of.listing
            chunks == Chunks(DcmEntries(listing))
        IN /\ ~ret.raises
           /\ Len(ret.val) = Cardinality(DcmFiles(listing))
           /\ \A k \in DcmFiles(listing) :
                  Cardinality({i \in DOMAIN ret.val :
                      ret.val[i]["DicomPath"] =
                          path_join(call.of.folder, listing[k].name)}) = 1
           /\ \A c \in DOMAIN chunks : Len(chunks[c]) \in 1..ChunkSize
           /\ SeqSum(chunks) = DcmEntries(listing)

\* C15: load_processed_folders returns the empty set, raising nothing, for
\* a missing file, an empty file and a file whose text is not JSON (a list
\* cut short, a list with the tail of a longer one after it, other
\* garbage); for a file holding a dumped list it returns the set of the
\* list's elements.
C15_LoadTolerant ==
    Returned("load_processed_folders") =>
        /\ (\/ ~call.of.exists
            \/ call.of.text \in {""} \union CutShort \union WrittenOver \union NotJson)
           => (~ret.raises /\ ret.val = {})
        /\ \A ns \in NameSeqs :
               (call.of.exists /\ call.of.text = DumpedList(ns))
               => (~ret.raises /\ ret.val = {PyStr(ns[i]) : i \in DOMAIN ns})

C15_Witness ==
    /\ Returned("load_processed_folders")
    /\ call.of = File("[\"/r/A\"] \"/r/B\"]")
    /\ ~ret.raises
    /\ ret.val = {}

\* C20: for an absolute and for a relative root, the directories
\* find_dcm_folders returns are those of the tree under the root, the root
\* included, that hold a .dcm file directly: none is missing and no other
\* directory is returned.
C20_ExactFolders ==
    Returned("find_dcm_folders") =>
        /\ ~ret.raises
        /\ {Resolve(ret.val[i]) : i \in DOMAIN ret.val} =
               {dir \in call.of.disk.dcm :
                   IsPrefix(Resolve(call.of.root_dir), dir)}

\* C21: the list find_dcm_folders returns is sorted and names no directory
\* twice, and it is the list the scan returns for every order in which the
\* directory checks complete.
C21_SameSortedList ==
    Returned("find_dcm_folders") =>
        /\ \A i, j \in DOMAIN ret.val :
               i < j => /\ StrLess(ret.val[i], ret.val[j])
                        /\ Resolve(ret.val[i]) # Resolve(ret.val[j])
        /\ \A folders \in find_dcm_folders_on(call.of.disk, call.of.root_dir) :
               folders = ret.val

\* Two folders are returned, one of them found by two checks, and the
\* checks can complete in an order that is not the sorted one.
C21_Witness ==
    /\ Returned("find_dcm_folders")
    /\ Len(ret.val) = 2
    /\ \E folders \in ResultLists(call.of.disk,
                                  CheckedPaths(call.of.disk, call.of.root_dir)) :
           /\ Len(folders) = 3
           /\ StrLess(folders[2], folders[1])

\* C23: for every output path the checkpoint file and the temp_processing
\* directory lie in one directory, the directory of the output file.
C23_SameDirectory ==
    Returned("create_temp_dir") =>
        /\ Parent(ret.val) = Parent(call.of)
        /\ Parent(checkpoint_path(call.of)) = Parent(call.of)

\* C29: the list process_folder returns is the same for every order in
\* which the chunk futures complete: the list returned equals the list of
\* any other completion order on the same folder and listing.
C29_OrderIndependent ==
    Returned("process_folder") =>
        \A order \in Perms(Len(Chunks(DcmEntries(call.of.listing)))) :
            ret.val = process_folder_entries(call.of.folder,
                                             call.of.listing, order)

====
